---- MODULE Spec2Model ----
(***************************************************************************)
(* Model of backAnd/api/ai_providers.py: the provider variants (their      *)
(* check_connection, list_models and streaming normalizers), the           *)
(* FallbackProvider with the config audit of backAnd/api/config_analyzer.py,*)
(* the AIService gateway and the AITeam collaboration engine.              *)
(*                                                                         *)
(* Python semantics that the model keeps:                                  *)
(*  - a function whose body contains `yield` is a generator function: a    *)
(*    call runs none of the body and hands the caller a generator object;  *)
(*    the body runs when the caller iterates, a `return v` inside it ends  *)
(*    the iteration and v travels in StopIteration, it is not an event;    *)
(*  - `for x in lst` reads lst by index, so lst.remove() inside the loop   *)
(*    shifts the elements under the index;                                 *)
(*  - d[k] on a dict raises KeyError when k is missing, len() of a         *)
(*    generator object raises TypeError, max() of an empty list raises     *)
(*    ValueError.                                                          *)
(***************************************************************************)
EXTENDS Integers, Sequences, FiniteSets, TLC

VARIABLES
    \* ---- one provider-level generate_completion call ----
    sProvider,   \* provider variant the call is made on
    sStream,     \* the stream argument
    sCred,       \* TRUE iff the provider object holds its credential
    sUp,         \* what the backend will answer (status, lines, body, text)
    sPc,         \* position of the call / of the generator body
    sPos,        \* number of upstream lines (or chunks) consumed so far
    sEvents,     \* events yielded to the caller so far
    sRet,        \* what the call expression handed to the caller
    sValue,      \* the string the body returned (StopIteration value)
    sReqs,       \* network requests issued by this call
    \* ---- the AIService object (set by __init__, read by every call) ----
    providers,        \* keys of self.providers, the registry
    default_provider, \* self.default_provider
    use_fallback,     \* self.use_fallback
    configured,       \* names of the settings that held a value at construction
    \* ---- one AIService.list_models / generate_completion call ----
    gOp,         \* "none", "list_models" or "generate_completion"
    gName,       \* the provider argument
    gStream,     \* the stream argument
    gPrompt,     \* the prompt argument
    gPc,         \* position of the call / of the generator body
    gResolved,   \* the local `provider` after name resolution
    gProbes,     \* check_connection() calls made: <<name, answer>> in order
    gListed,     \* provider.list_models() calls made: <<name, answer>> in order
    gRet,        \* what the call expression handed to the caller
    gEvents,     \* events the gateway generator yielded so far
    gStop,       \* the value the generator body returned (StopIteration value)
    gRaised,     \* exception that left the call or the iteration
    gCalls,      \* providers whose generate_completion the body called, in order
    \* ---- one AITeam.collaborate call ----
    tPc,          \* position inside collaborate
    tArgProviders,\* the providers argument as passed (<<>> stands for None and [])
    tArgModels,   \* the models argument as passed (<<>> stands for None and [])
    tProviders,   \* the local list `providers` (the caller's list object when one was passed)
    tModels,      \* the local list `models`
    tIdx,         \* index of the list iterator of the model-resolution loop
    tResponses,   \* the list `responses`
    tSynth,       \* outcome of each meta_providers entry tried so far: "skipped"
                  \* (unregistered or probe failed), "nomodels", "selected"
    tResult,      \* the value collaborate returned
    tRaised,      \* exception that left collaborate
    tProbes,      \* check_connection() calls made during the call
    tLists,       \* provider list_models() calls made during the call
    tArgTemp,     \* the temperature argument given to AIService.collaborate
    tListing,     \* model-resolution loop: <<provider, listing>> of each
                  \* self.service.list_models(provider=provider) that returned
    tCalls,       \* self.service.generate_completion(...) calls issued, in order
    \* ---- one check_connection / list_models call on the provider object ----
    pOp,         \* "none", "check_connection" or "list_models"
    pReply,      \* what the backend answered to the request of the call
    pPc,         \* "idle" or "done"
    pRet,        \* the value the call returned
    pReqs,       \* network requests issued by the call
    \* ---- one FallbackProvider.generate_completion(model, prompt) call ----
    aPrompt,     \* the prompt, as _get_fallback_response reads it
    aPc,         \* "idle" or "done"
    aReport      \* the value returned

svars == <<sProvider, sStream, sCred, sUp, sPc, sPos, sEvents, sRet, sValue, sReqs>>

evars == <<providers, default_provider, use_fallback, configured>>

gvars == <<gOp, gName, gStream, gPrompt, gPc, gResolved, gProbes, gListed,
           gRet, gEvents, gStop, gRaised, gCalls>>

tvars == <<tPc, tArgProviders, tArgModels, tProviders, tModels, tIdx, tResponses,
           tSynth, tResult, tRaised, tProbes, tLists, tArgTemp, tListing, tCalls>>

pvars == <<pOp, pReply, pPc, pRet, pReqs>>

avars == <<aPrompt, aPc, aReport>>

vars == <<sProvider, sStream, sCred, sUp, sPc, sPos, sEvents, sRet, sValue, sReqs,
          providers, default_provider, use_fallback, configured,
          gOp, gName, gStream, gPrompt, gPc, gResolved, gProbes, gListed,
          gRet, gEvents, gStop, gRaised, gCalls,
          tPc, tArgProviders, tArgModels, tProviders, tModels, tIdx, tResponses,
          tSynth, tResult, tRaised, tProbes, tLists, tArgTemp, tListing, tCalls,
          pOp, pReply, pPc, pRet, pReqs,
          aPrompt, aPc, aReport>>

\* ---------------------------------------------------------------------------
\* Bounds
\* ---------------------------------------------------------------------------
MaxLines == 3      \* upstream lines of one streamed response
MaxText  == 61     \* characters of a full (non-streamed) answer text

\* ---------------------------------------------------------------------------
\* Provider variants
\* ---------------------------------------------------------------------------
NativeProviders == {"ollama", "openai", "anthropic", "gemini", "azure_openai"}
Credentialed    == {"openai", "anthropic", "gemini", "azure_openai", "huggingface"}
Providers       == NativeProviders \cup {"huggingface", "fallback"}

\* A function with `yield` in its body is a generator function.  Every
\* vendor generate_completion has one; FallbackProvider.generate_completion
\* has none (it returns self._stream_fallback(response) or the string).
IsGeneratorFunction(p) == p # "fallback"

\* ---------------------------------------------------------------------------
\* Texts and events
\* ---------------------------------------------------------------------------
\* A text of n characters is the sequence 1..n, so that a slice shows which
\* characters it holds.
Text(n) == [i \in 1..n |-> i]

Slice(s, from, to) == [i \in 1..(to - from + 1) |-> s[from + i - 1]]

DataEvent(resp, d) == [kind |-> "data", done |-> d, response |-> resp]
ErrorEvent == [kind |-> "error", done |-> FALSE, response |-> <<>>]
\* json.dumps of a chunk that is not a JSON object (Ollama passes chunks on)
RawEvent == [kind |-> "raw", done |-> FALSE, response |-> <<>>]

\* ---------------------------------------------------------------------------
\* Upstream lines, classified relative to the vendor's own framing
\*   blank      an empty line
\*   delta      a well-formed content chunk
\*   end        the vendor's end-of-stream signal ({"done":true} / data: [DONE])
\*   stop       the JSON object {"type":"message_stop"}
\*   nocontent  a JSON object that carries no delta ({} / empty delta / ping)
\*   malformed  text that is not JSON
\*   nonobject  the JSON array [1]
\*   unframed   a line outside the framing (no data: prefix; for Ollama a
\*              data:-prefixed line, which is not JSON)
\* ---------------------------------------------------------------------------
LineKinds == {"blank", "delta", "end", "stop", "nocontent", "malformed",
              "nonobject", "unframed"}

Effect(ev, c) == [emit |-> ev, ctl |-> c]

\* OllamaProvider.generate_completion, body of the for loop: the chunk is
\* yielded as is, done=true breaks, only JSONDecodeError is caught inside.
OllamaLine(k) ==
    CASE k = "blank"     -> Effect(<<>>, "next")
      [] k = "delta"     -> Effect(<<DataEvent(<<1>>, FALSE)>>, "next")
      [] k = "end"       -> Effect(<<DataEvent(<<>>, TRUE)>>, "break")
      [] k = "stop"      -> Effect(<<DataEvent(<<>>, FALSE)>>, "next")
      [] k = "nocontent" -> Effect(<<DataEvent(<<>>, FALSE)>>, "next")
      [] k = "malformed" -> Effect(<<ErrorEvent>>, "next")
      [] k = "unframed"  -> Effect(<<ErrorEvent>>, "next")
      [] k = "nonobject" -> Effect(<<RawEvent>>, "abort")

\* OpenAILine without the `break` after the [DONE] event.
OpenAILine_NoBreak(k) ==
    CASE k = "blank"     -> Effect(<<>>, "next")
      [] k = "unframed"  -> Effect(<<>>, "next")
      [] k = "end"       -> Effect(<<DataEvent(<<>>, TRUE)>>, "next")
      [] k = "delta"     -> Effect(<<DataEvent(<<1>>, FALSE)>>, "next")
      [] k = "nocontent" -> Effect(<<>>, "next")
      [] k = "stop"      -> Effect(<<ErrorEvent>>, "next")
      [] k = "malformed" -> Effect(<<ErrorEvent>>, "next")
      [] k = "nonobject" -> Effect(<<ErrorEvent>>, "next")

\* OpenAIProvider.generate_completion, body of the for loop.
OpenAILine(k) ==
    CASE k = "blank"     -> Effect(<<>>, "next")
      [] k = "unframed"  -> Effect(<<>>, "next")
      [] k = "end"       -> Effect(<<DataEvent(<<>>, TRUE)>>, "break")
      [] k = "delta"     -> Effect(<<DataEvent(<<1>>, FALSE)>>, "next")
      [] k = "nocontent" -> Effect(<<>>, "next")
      [] k = "stop"      -> Effect(<<ErrorEvent>>, "next")
      [] k = "malformed" -> Effect(<<ErrorEvent>>, "next")
      [] k = "nonobject" -> Effect(<<ErrorEvent>>, "next")

\* AnthropicProvider.generate_completion, body of the for loop.
AnthropicLine(k) ==
    CASE k = "blank"     -> Effect(<<>>, "next")
      [] k = "unframed"  -> Effect(<<>>, "next")
      [] k = "end"       -> Effect(<<DataEvent(<<>>, TRUE)>>, "break")
      [] k = "delta"     -> Effect(<<DataEvent(<<1>>, FALSE)>>, "next")
      [] k = "nocontent" -> Effect(<<>>, "next")
      [] k = "stop"      -> Effect(<<DataEvent(<<>>, TRUE)>>, "break")
      [] k = "malformed" -> Effect(<<ErrorEvent>>, "next")
      [] k = "nonobject" -> Effect(<<ErrorEvent>>, "next")

\* GeminiProvider.generate_completion, body of the for loop.
GeminiLine(k) ==
    CASE k = "blank"     -> Effect(<<>>, "next")
      [] k = "unframed"  -> Effect(<<>>, "next")
      [] k = "end"       -> Effect(<<DataEvent(<<>>, TRUE)>>, "break")
      [] k = "delta"     -> Effect(<<DataEvent(<<1>>, FALSE)>>, "next")
      [] k = "nocontent" -> Effect(<<>>, "next")
      [] k = "stop"      -> Effect(<<>>, "next")
      [] k = "malformed" -> Effect(<<ErrorEvent>>, "next")
      [] k = "nonobject" -> Effect(<<>>, "next")

\* AzureOpenAIProvider.generate_completion, body of the for loop.
AzureLine(k) ==
    CASE k = "blank"     -> Effect(<<>>, "next")
      [] k = "unframed"  -> Effect(<<>>, "next")
      [] k = "end"       -> Effect(<<DataEvent(<<>>, TRUE)>>, "break")
      [] k = "delta"     -> Effect(<<DataEvent(<<1>>, FALSE)>>, "next")
      [] k = "nocontent" -> Effect(<<>>, "next")
      [] k = "stop"      -> Effect(<<>>, "next")
      [] k = "malformed" -> Effect(<<ErrorEvent>>, "next")
      [] k = "nonobject" -> Effect(<<>>, "next")

LineEffect(p, k) ==
    CASE p = "ollama"       -> OllamaLine(k)
      [] p = "openai"       -> OpenAILine(k)
      [] p = "anthropic"    -> AnthropicLine(k)
      [] p = "gemini"       -> GeminiLine(k)
      [] p = "azure_openai" -> AzureLine(k)

\* ---------------------------------------------------------------------------
\* Backend answers
\* ---------------------------------------------------------------------------
\* post: "ok" (status 200), "status" (non-success status), "exc" (requests
\* raises: connection error or timeout before any byte arrives).
\* lines/fail: the lines iter_lines() delivers, and whether it then raises.
\* body: "ok" or "malformed" (json() or the extraction raises).
\* text: the answer text carried by a well-formed body.
Upstream(post, lines, fail, body, text) ==
    [post |-> post, lines |-> lines, fail |-> fail, body |-> body, text |-> text]

NoUpstream == Upstream("ok", <<>>, FALSE, "ok", <<>>)

LineSeqs == UNION {[1..n -> LineKinds] : n \in 0..MaxLines}

StreamUpstreams ==
    {Upstream("status", <<>>, FALSE, "ok", <<>>), Upstream("exc", <<>>, FALSE, "ok", <<>>)}
    \cup {Upstream("ok", l, f, "ok", <<>>) : l \in LineSeqs, f \in BOOLEAN}

BodyUpstreams ==
    {Upstream("status", <<>>, FALSE, "ok", <<>>), Upstream("exc", <<>>, FALSE, "ok", <<>>),
     Upstream("ok", <<>>, FALSE, "malformed", <<>>)}
    \cup {Upstream("ok", <<>>, FALSE, "ok", Text(n)) : n \in 0..MaxText}

\* FallbackProvider has no backend: text is the response it computed, never
\* empty (the chunking of short and empty texts is reached through HuggingFace).
FallbackUpstreams == {Upstream("ok", <<>>, FALSE, "ok", Text(n)) : n \in 1..MaxText}

\* ---------------------------------------------------------------------------
\* Values a non-streaming body returns
\* ---------------------------------------------------------------------------
NoValue        == [kind |-> "none",   text |-> <<>>]
AnswerValue(t) == [kind |-> "answer", text |-> t]
EmptyValue     == [kind |-> "answer", text |-> <<>>]
ErrorValue     == [kind |-> "error",  text |-> <<>>]

\* `if not self.api_key` (Azure: `or not self.endpoint`) at the top of every
\* credentialed generate_completion; OllamaProvider has no such test.
MissingCredential(p, cred) == p \in Credentialed /\ ~cred

\* The stream=False branch of a vendor generate_completion: one request,
\* the extracted text on status 200, '' on another status, "Error: ..."
\* when requests or the extraction raises.
NonStreamValue(up) ==
    CASE up.post = "exc"    -> ErrorValue
      [] up.post = "status" -> EmptyValue
      [] up.post = "ok" /\ up.body = "malformed" -> ErrorValue
      [] OTHER -> AnswerValue(up.text)

\* ---------------------------------------------------------------------------
\* Re-chunking (FallbackProvider._stream_fallback and the HuggingFace
\* emulation): chunk_size = max(5, len // 10), chunks = text[i:i+chunk_size]
\* for i in range(0, len, chunk_size).
\* ---------------------------------------------------------------------------
MinChunk == 5
ChunkDiv == 10

Max2(a, b) == IF a >= b THEN a ELSE b
Min2(a, b) == IF a <= b THEN a ELSE b

\* chunk_size with the quotient rounded up instead of down
chunk_size_Ceil(text) == Max2(MinChunk, (Len(text) + ChunkDiv - 1) \div ChunkDiv)

chunk_size(text) == Max2(MinChunk, Len(text) \div ChunkDiv)

NumChunks(text) == (Len(text) + chunk_size(text) - 1) \div chunk_size(text)

\* Chunk that stops one character before the end of its slice
Chunk_Short(text, i) ==
    Slice(text, (i - 1) * chunk_size(text) + 1, Min2(i * chunk_size(text), Len(text)) - 1)

Chunk(text, i) ==
    Slice(text, (i - 1) * chunk_size(text) + 1, Min2(i * chunk_size(text), Len(text)))

\* the i-th event of the emulated stream (i from 1): done on the last chunk
ChunkEvent(text, i) == DataEvent(Chunk(text, i), i = NumChunks(text))

\* ---------------------------------------------------------------------------
\* One provider-level call
\* ---------------------------------------------------------------------------
SInit ==
    /\ sProvider \in Providers
    /\ sStream \in BOOLEAN
    /\ sCred \in (IF sProvider \in Credentialed THEN BOOLEAN ELSE {TRUE})
    /\ sUp \in (IF sProvider = "fallback" THEN FallbackUpstreams
                ELSE IF ~sCred THEN {NoUpstream}
                ELSE IF sStream /\ sProvider \in NativeProviders THEN StreamUpstreams
                ELSE BodyUpstreams)
    /\ sPc = "idle"
    /\ sPos = 0
    /\ sEvents = <<>>
    /\ sRet = "none"
    /\ sValue = NoValue
    /\ sReqs = 0

\* The call expression P.generate_completion(model, prompt, temperature,
\* stream).  A generator function runs nothing and hands back a generator
\* object.  FallbackProvider.generate_completion is an ordinary function:
\* it computes the response and returns it, or returns the generator
\* object of _stream_fallback(response).
SCall ==
    /\ sPc = "idle"
    /\ IF IsGeneratorFunction(sProvider) \/ sStream
       THEN /\ sRet' = "generator"
            /\ sPc' = "created"
            /\ sValue' = sValue
       ELSE /\ sRet' = "string"
            /\ sPc' = "done"
            /\ sValue' = AnswerValue(sUp.text)
    /\ UNCHANGED <<sProvider, sStream, sCred, sUp, sPos, sEvents, sReqs, evars, gvars, tvars, pvars, avars>>

\* First next() on the generator object of a vendor generate_completion
\* with stream=False: the body runs to its return statement; the returned
\* string is the value of StopIteration and no event is yielded.
SRunNonStream ==
    /\ sPc = "created"
    /\ IsGeneratorFunction(sProvider)
    /\ ~sStream
    /\ IF MissingCredential(sProvider, sCred)
       THEN sValue' = ErrorValue /\ sReqs' = sReqs
       ELSE sValue' = NonStreamValue(sUp) /\ sReqs' = sReqs + 1
    /\ sPc' = "done"
    /\ UNCHANGED <<sProvider, sStream, sCred, sUp, sPos, sEvents, sRet, evars, gvars, tvars, pvars, avars>>

\* SOpenStream that closes a failed stream with a done=true event
SOpenStream_ErrorThenDone ==
    /\ sPc = "created"
    /\ sStream
    /\ sProvider \in NativeProviders
    /\ IF MissingCredential(sProvider, sCred)
       THEN /\ sEvents' = Append(sEvents, ErrorEvent)
            /\ sPc' = "done"
            /\ sReqs' = sReqs
       ELSE /\ sReqs' = sReqs + 1
            /\ IF sUp.post = "ok"
               THEN sEvents' = sEvents /\ sPc' = "lines"
               ELSE /\ sEvents' = sEvents \o <<ErrorEvent, DataEvent(<<>>, TRUE)>>
                    /\ sPc' = "done"
    /\ UNCHANGED <<sProvider, sStream, sCred, sUp, sPos, sRet, sValue, evars, gvars, tvars, pvars, avars>>

\* First next() on a native streaming generator: credential test, the
\* POST with stream=True, the status test.
SOpenStream ==
    /\ sPc = "created"
    /\ sStream
    /\ sProvider \in NativeProviders
    /\ IF MissingCredential(sProvider, sCred)
       THEN /\ sEvents' = Append(sEvents, ErrorEvent)
            /\ sPc' = "done"
            /\ sReqs' = sReqs
       ELSE /\ sReqs' = sReqs + 1
            /\ IF sUp.post = "ok"
               THEN sEvents' = sEvents /\ sPc' = "lines"
               ELSE sEvents' = Append(sEvents, ErrorEvent) /\ sPc' = "done"
    /\ UNCHANGED <<sProvider, sStream, sCred, sUp, sPos, sRet, sValue, evars, gvars, tvars, pvars, avars>>

\* One iteration of `for line in response.iter_lines()`, to its yield or to
\* the end of the iteration.
SLine ==
    /\ sPc = "lines"
    /\ sPos < Len(sUp.lines)
    /\ LET eff == LineEffect(sProvider, sUp.lines[sPos + 1]) IN
         /\ sPos' = sPos + 1
         /\ sEvents' = sEvents \o eff.emit
         /\ sPc' = CASE eff.ctl = "next"  -> "lines"
                      [] eff.ctl = "abort" -> "raising"
                      [] OTHER             -> "done"
    /\ UNCHANGED <<sProvider, sStream, sCred, sUp, sRet, sValue, sReqs, evars, gvars, tvars, pvars, avars>>

\* next() on a generator suspended at the yield of a chunk that is no JSON
\* object: chunk.get("done") raises AttributeError and the outer
\* `except Exception` yields one error event.
SRaiseAfterYield ==
    /\ sPc = "raising"
    /\ sEvents' = Append(sEvents, ErrorEvent)
    /\ sPc' = "done"
    /\ UNCHANGED <<sProvider, sStream, sCred, sUp, sPos, sRet, sValue, sReqs, evars, gvars, tvars, pvars, avars>>

\* iter_lines() has no further line: the loop ends, or the read raises and
\* the outer `except Exception` yields one error event.
SEndOfLines ==
    /\ sPc = "lines"
    /\ sPos = Len(sUp.lines)
    /\ sEvents' = IF sUp.fail THEN Append(sEvents, ErrorEvent) ELSE sEvents
    /\ sPc' = "done"
    /\ UNCHANGED <<sProvider, sStream, sCred, sUp, sPos, sRet, sValue, sReqs, evars, gvars, tvars, pvars, avars>>

\* First next() on a re-chunking generator.  HuggingFace: credential test,
\* one full POST, status test, extraction, then the chunk loop.  Fallback:
\* _stream_fallback computes the chunks of the response.
SOpenChunks ==
    /\ sPc = "created"
    /\ sStream
    /\ sProvider \in {"huggingface", "fallback"}
    /\ IF sProvider = "fallback"
       THEN /\ sReqs' = sReqs
            /\ sEvents' = sEvents
            /\ sPc' = "chunks"
       ELSE IF MissingCredential(sProvider, sCred)
       THEN /\ sReqs' = sReqs
            /\ sEvents' = Append(sEvents, ErrorEvent)
            /\ sPc' = "done"
       ELSE /\ sReqs' = sReqs + 1
            /\ IF sUp.post = "ok" /\ sUp.body = "ok"
               THEN sEvents' = sEvents /\ sPc' = "chunks"
               ELSE sEvents' = Append(sEvents, ErrorEvent) /\ sPc' = "done"
    /\ UNCHANGED <<sProvider, sStream, sCred, sUp, sPos, sRet, sValue, evars, gvars, tvars, pvars, avars>>

\* One iteration of `for i, chunk in enumerate(chunks)`, or its end.
SChunk ==
    /\ sPc = "chunks"
    /\ IF sPos < NumChunks(sUp.text)
       THEN /\ sPos' = sPos + 1
            /\ sEvents' = Append(sEvents, ChunkEvent(sUp.text, sPos + 1))
            /\ sPc' = "chunks"
       ELSE /\ sPos' = sPos
            /\ sEvents' = sEvents
            /\ sPc' = "done"
    /\ UNCHANGED <<sProvider, sStream, sCred, sUp, sRet, sValue, sReqs, evars, gvars, tvars, pvars, avars>>

SNext == SCall \/ SRunNonStream \/ SOpenStream \/ SLine \/ SRaiseAfterYield
         \/ SEndOfLines \/ SOpenChunks \/ SChunk


\* ===========================================================================
\* Properties of the provider-level call
\* ===========================================================================
DoneIndexes(ev) == {i \in 1..Len(ev) : ev[i].done}

\* C1: in every prefix of every provider's streamed event sequence, an event
\* with done=true can only be the last one emitted so far; hence the whole
\* sequence holds at most one such event and nothing follows it.
C1_DoneIsLast ==
    sStream => \A i \in 1..Len(sEvents) : sEvents[i].done => i = Len(sEvents)

\* C1 witness: a native stream that ended on its end-of-stream signal after
\* earlier events, with upstream lines still unread behind the signal.
C1_Witness ==
    /\ sStream /\ sPc = "done"
    /\ Len(sEvents) >= 2
    /\ sEvents[Len(sEvents)].done
    /\ sPos < Len(sUp.lines)

\* The backend answered 200 with a well-formed body and the read of the
\* response met no transport error.
NaturalEnd ==
    /\ sStream /\ sPc = "done"
    /\ ~MissingCredential(sProvider, sCred)
    /\ sUp.post = "ok" /\ sUp.body = "ok" /\ ~sUp.fail

\* C2 (as claimed): a stream whose upstream ended naturally holds exactly
\* one done=true event, as its last event; any finished stream without a
\* done=true event ends with an error event.
C2_NaturalEndEmitsDone ==
    /\ NaturalEnd =>
         /\ Cardinality(DoneIndexes(sEvents)) = 1
         /\ Len(sEvents) \in DoneIndexes(sEvents)
    /\ (sStream /\ sPc = "done" /\ DoneIndexes(sEvents) = {}) =>
         /\ Len(sEvents) > 0
         /\ sEvents[Len(sEvents)].kind = "error"

\* C3 (as claimed): once a stream=False call has been made, what the caller
\* holds is a string.
C3_NonStreamReturnsString ==
    (sPc # "idle" /\ ~sStream) => sRet = "string"

\* ===========================================================================
\* FallbackProvider: prompt classification
\* ===========================================================================
\* What _get_fallback_response reads in a prompt:
\*   analysis  "проверь" or "проанализируй" occurs
\*   config    "конфиг" occurs
\*   fenced    a ```...``` or triple-quote block is found; the block is then the
\*             text `server { listen 80 }`
\*   ctype     "nginx" occurs, else "apache" occurs, else none
\*   unix      "unix" or "linux" occurs
\*   vpn       "vpn" occurs;  tor: "tor" occurs;  k8s: "kubernetes" or "k8s"
\*   onion     "full": the word "луковичный" occurs; "stem": its stem
\*             "лукови" occurs, the whole word does not; else "none"
OnionKinds == {"none", "stem", "full"}

PromptOf(an, cf, fe, ct, ux, vp, tr, on, k8) ==
    [analysis |-> an, config |-> cf, fenced |-> fe, ctype |-> ct,
     unix |-> ux, vpn |-> vp, tor |-> tr, onion |-> on, k8s |-> k8]

PlainPrompt  == PromptOf(FALSE, FALSE, FALSE, "none", FALSE, FALSE, FALSE, "none", FALSE)
UnixPrompt   == PromptOf(FALSE, FALSE, FALSE, "none", TRUE, FALSE, FALSE, "none", FALSE)
AuditPrompt  == PromptOf(TRUE, TRUE, TRUE, "nginx", FALSE, FALSE, FALSE, "none", FALSE)

Response(topic, n) == [topic |-> topic, len |-> n]

\* lengths, in characters, of the canned responses
UnixLen       == 599
NetworkLen    == 669
TorLen        == 1248
KubernetesLen == 1732
GeneralLen    == 724
\* lengths of the reports analyze_config_file returns for `server { listen 80 }`
NginxAuditLen  == 260
ApacheAuditLen == 233

\* config_analyzer.analyze_config_file(config_text, config_type) on the
\* text `server { listen 80 }`: no hint and the text holds "server {" -> nginx.
analyze_config_file(ctype) ==
    IF ctype = "apache" THEN Response("audit_apache", ApacheAuditLen)
    ELSE Response("audit_nginx", NginxAuditLen)

\* FallbackProvider._get_fallback_response
get_fallback_response(q) ==
    IF q.analysis /\ q.config /\ q.fenced THEN analyze_config_file(q.ctype)
    ELSE IF q.unix THEN Response("unix", UnixLen)
    ELSE IF q.vpn \/ q.tor \/ q.onion # "none"
         THEN (IF q.tor \/ q.onion = "full" THEN Response("tor", TorLen)
               ELSE Response("network", NetworkLen))
    ELSE IF q.k8s THEN Response("kubernetes", KubernetesLen)
    ELSE Response("general", GeneralLen)

\* the events _stream_fallback(text) yields when it is iterated to its end
stream_fallback(text) == [i \in 1..NumChunks(text) |-> ChunkEvent(text, i)]

\* ===========================================================================
\* FallbackProvider and config_analyzer: the config audit
\* ===========================================================================
MaxConfigLines == 3   \* lines of a fenced config text

\* lines a fenced config text is made of
\*   inline_block  `server { listen 80 }`
\*   server_open   `server {`
\*   open_inline   `server { listen 80`
\*   listen_semi   `listen 80;`
\*   listen_bare   `listen 80`
\*   close         `}`
\*   comment       `# comment`
ConfigLines == {"inline_block", "server_open", "open_inline", "listen_semi",
                "listen_bare", "close", "comment"}

ConfigTexts == UNION {[1..n -> ConfigLines] : n \in 0..MaxConfigLines}

\* config_text.count('{') and config_text.count('}')
RECURSIVE CountLines(_, _)
CountLines(text, S) ==
    IF text = <<>> THEN 0
    ELSE (IF Head(text) \in S THEN 1 ELSE 0) + CountLines(Tail(text), S)

open_braces(text)  == CountLines(text, {"inline_block", "server_open", "open_inline"})
close_braces(text) == CountLines(text, {"inline_block", "close"})

\* the semicolon loop skips empty lines, comments, lines that start with
\* '}' and every line that contains '{'; of the others it reports those
\* that do not end with ';'
LacksSemicolon(line) == line = "listen_bare"

\* `line.startswith('listen')`
IsListen(line) == line \in {"listen_semi", "listen_bare"}

Problem(kind, line) == [kind |-> kind, line |-> line]

BraceProblems(text) ==
    IF open_braces(text) # close_braces(text) THEN <<Problem("braces", 0)>> ELSE <<>>

RECURSIVE SemicolonProblems(_, _)
SemicolonProblems(text, i) ==
    IF i > Len(text) THEN <<>>
    ELSE (IF LacksSemicolon(text[i]) THEN <<Problem("semicolon", i)>> ELSE <<>>)
         \o SemicolonProblems(text, i + 1)

\* every listen line after the first repeats port 80
RECURSIVE ListenProblems(_, _, _)
ListenProblems(text, i, seen) ==
    IF i > Len(text) THEN <<>>
    ELSE IF IsListen(text[i])
         THEN (IF seen THEN <<Problem("dup_listen", 0)>> ELSE <<>>)
              \o ListenProblems(text, i + 1, TRUE)
    ELSE ListenProblems(text, i + 1, seen)

Report(type, problems, suggestions) ==
    [type |-> type, problems |-> problems, suggestions |-> suggestions]

NoReport == Report("none", <<>>, 0)

\* config_analyzer.analyze_nginx_config: the problems in the order the
\* checks append them; the two add_header recommendations are always made
\* (no line holds add_header)
analyze_nginx_config(text) ==
    Report("nginx",
           BraceProblems(text) \o SemicolonProblems(text, 1) \o ListenProblems(text, 1, FALSE),
           2)

\* config_analyzer.analyze_apache_config on these lines: no tag, no
\* ServerName; the ServerTokens and TraceEnable recommendations are made
analyze_apache_config(text) == Report("apache", <<>>, 2)

\* `'server {' in config_text`
HasServerBlock(text) ==
    \E i \in 1..Len(text) : text[i] \in {"inline_block", "server_open", "open_inline"}

\* config_analyzer.analyze_config_file(config_text, config_type)
analyze_config_text(text, ctype) ==
    IF ctype = "nginx" THEN analyze_nginx_config(text)
    ELSE IF ctype = "apache" THEN analyze_apache_config(text)
    ELSE IF HasServerBlock(text) THEN analyze_nginx_config(text)
    ELSE Report("undetermined", <<>>, 0)

\* a prompt as _get_fallback_response reads it: fence is "backticks",
\* "quotes" or "none"; block is the text of the fenced block
\* topics: the other keywords of the prompt (vpn, tor, onion, k8s)
AuditPromptOf(an, cf, fence, ct, ux, topics, block) ==
    [analysis |-> an, config |-> cf, fence |-> fence, ctype |-> ct,
     unix |-> ux, vpn |-> topics.vpn, tor |-> topics.tor, onion |-> topics.onion,
     k8s |-> topics.k8s, block |-> block]

Topics(vp, tr, on, k8) == [vpn |-> vp, tor |-> tr, onion |-> on, k8s |-> k8]
NoTopics == Topics(FALSE, FALSE, "none", FALSE)
TopicSets == {Topics(vp, tr, on, k8) :
                vp \in BOOLEAN, tr \in BOOLEAN, on \in OnionKinds, k8 \in BOOLEAN}

NoAuditPrompt == AuditPromptOf(FALSE, FALSE, "none", "none", FALSE, NoTopics, <<>>)

\* prompts without a fenced block and prompts that fence `server { listen 80 }`
\* with every combination of keywords; prompts that fence any config text
\* with the analysis, config, type and unix keywords
AuditPrompts ==
    {AuditPromptOf(an, cf, "none", ct, ux, t, <<>>) :
        an \in BOOLEAN, cf \in BOOLEAN, ct \in {"none", "nginx", "apache"},
        ux \in BOOLEAN, t \in TopicSets}
    \cup
    {AuditPromptOf(an, cf, fe, ct, ux, t, <<"inline_block">>) :
        an \in BOOLEAN, cf \in BOOLEAN, fe \in {"backticks", "quotes"},
        ct \in {"none", "nginx", "apache"}, ux \in BOOLEAN, t \in TopicSets}
    \cup
    {AuditPromptOf(an, cf, fe, ct, ux, NoTopics, b) :
        an \in BOOLEAN, cf \in BOOLEAN, fe \in {"backticks", "quotes"},
        ct \in {"none", "nginx", "apache"}, ux \in BOOLEAN, b \in ConfigTexts}

\* the prompt "проверь конфигурацию nginx ```server { listen 80 }```"
NginxAuditPrompt ==
    AuditPromptOf(TRUE, TRUE, "backticks", "nginx", FALSE, NoTopics, <<"inline_block">>)

\* _get_fallback_response hands the prompt's block to the auditor
RoutedToAuditor(q) == q.analysis /\ q.config /\ q.fence # "none"

\* FallbackProvider._get_fallback_response(prompt): the auditor's report,
\* or the canned response of the topic
fallback_response(q) ==
    IF RoutedToAuditor(q) THEN analyze_config_text(q.block, q.ctype)
    ELSE Report(get_fallback_response(
                  PromptOf(q.analysis, q.config, FALSE, q.ctype, q.unix,
                           q.vpn, q.tor, q.onion, q.k8s)).topic,
                <<>>, 0)

AInit ==
    /\ aPrompt \in AuditPrompts
    /\ aPc = "idle"
    /\ aReport = NoReport

\* model and temperature arguments of a FallbackProvider call
FallbackModelArgs == {"fallback-unix", "m"}
TemperatureArgs   == {"0.7", "0.2"}

\* FallbackProvider.generate_completion(model, prompt, temperature,
\* stream=False): the body reads neither model nor temperature
ACall ==
    /\ aPc = "idle"
    /\ \E model \in FallbackModelArgs, temperature \in TemperatureArgs :
         aReport' = fallback_response(aPrompt)
    /\ aPc' = "done"
    /\ UNCHANGED <<aPrompt, svars, evars, gvars, tvars, pvars>>

ANext == ACall

\* ===========================================================================
\* AIService: the registry and the gateway calls
\* ===========================================================================
CloudProviders == {"openai", "anthropic", "gemini", "azure_openai", "huggingface"}

\* AIService._initialize_providers: ollama and fallback always, a cloud
\* variant iff its credential is configured.
Registries == {{"ollama", "fallback"} \cup c : c \in SUBSET CloudProviders}

\* values of settings.DEFAULT_AI_PROVIDER the model tries ("nope" is never
\* a registry key)
DefaultNames == {"ollama", "openai", "nope"}

\* provider arguments the model tries: "" stands for None and ''
ProviderArgs == Providers \cup {"", "doesnotexist"}

GatewayPrompts == {PlainPrompt, UnixPrompt, AuditPrompt}

\* the settings _initialize_providers reads
SettingNames == {"OPENAI_API_KEY", "ANTHROPIC_API_KEY", "GEMINI_API_KEY",
                 "AZURE_OPENAI_API_KEY", "AZURE_OPENAI_ENDPOINT", "HUGGINGFACE_API_KEY"}

\* _initialize_providers that registers Azure on its key alone
initialize_providers_AzureKeyOnly(cfg) ==
    {"ollama"}
    \cup (IF "OPENAI_API_KEY" \in cfg THEN {"openai"} ELSE {})
    \cup (IF "ANTHROPIC_API_KEY" \in cfg THEN {"anthropic"} ELSE {})
    \cup (IF "GEMINI_API_KEY" \in cfg THEN {"gemini"} ELSE {})
    \cup (IF "AZURE_OPENAI_API_KEY" \in cfg THEN {"azure_openai"} ELSE {})
    \cup (IF "HUGGINGFACE_API_KEY" \in cfg THEN {"huggingface"} ELSE {})
    \cup {"fallback"}

\* AIService._initialize_providers: the keys of self.providers, given the
\* settings that hold a value
initialize_providers(cfg) ==
    {"ollama"}
    \cup (IF "OPENAI_API_KEY" \in cfg THEN {"openai"} ELSE {})
    \cup (IF "ANTHROPIC_API_KEY" \in cfg THEN {"anthropic"} ELSE {})
    \cup (IF "GEMINI_API_KEY" \in cfg THEN {"gemini"} ELSE {})
    \cup (IF "AZURE_OPENAI_API_KEY" \in cfg /\ "AZURE_OPENAI_ENDPOINT" \in cfg
          THEN {"azure_openai"} ELSE {})
    \cup (IF "HUGGINGFACE_API_KEY" \in cfg THEN {"huggingface"} ELSE {})
    \cup {"fallback"}

\* the settings that give registry r, Azure with both of its settings or none
SettingsFor(r) ==
    {n \in SettingNames :
        \/ n = "OPENAI_API_KEY" /\ "openai" \in r
        \/ n = "ANTHROPIC_API_KEY" /\ "anthropic" \in r
        \/ n = "GEMINI_API_KEY" /\ "gemini" \in r
        \/ n \in {"AZURE_OPENAI_API_KEY", "AZURE_OPENAI_ENDPOINT"} /\ "azure_openai" \in r
        \/ n = "HUGGINGFACE_API_KEY" /\ "huggingface" \in r}

EInit ==
    /\ providers \in Registries
    /\ configured = SettingsFor(providers)
    /\ default_provider \in DefaultNames
    /\ use_fallback \in BOOLEAN

\* answers check_connection() can give: FallbackProvider always True
ProbeAnswers(p) == IF p = "fallback" THEN {TRUE} ELSE BOOLEAN

FallbackCatalogue ==
    <<"fallback-unix", "fallback-network", "fallback-kubernetes", "fallback-analyzer">>
AnthropicCatalogue ==
    <<"claude-3-opus-20240229", "claude-3-sonnet-20240229",
      "claude-3-haiku-20240307", "claude-2.1">>
HuggingFaceCatalogue ==
    <<"mistralai/Mistral-7B-Instruct-v0.2", "meta-llama/Llama-2-7b-chat-hf",
      "tiiuae/falcon-7b-instruct", "codellama/CodeLlama-7b-instruct-hf",
      "google/gemma-7b-it">>

\* a listing the vendor's list endpoint may send (example names)
VendorModels(p) ==
    CASE p = "ollama"       -> <<"llama3", "mistral">>
      [] p = "openai"       -> <<"gpt-4", "gpt-3.5-turbo">>
      [] p = "gemini"       -> <<"gemini-pro">>
      [] p = "azure_openai" -> <<"deployment-1">>

\* ---------------------------------------------------------------------------
\* check_connection() and list_models() of the provider variants
\* ---------------------------------------------------------------------------
\* What the backend answers to the one GET/POST of the call.
\*   post: "ok" (status 200), "status" (another status), "exc" (requests raises)
\*   body of a 200 answer to the list request:
\*     models     a well-formed listing with entries
\*     empty      a well-formed listing without entries ({} or an empty array)
\*     malformed  not JSON, json() raises
\*     nonobject  the JSON array [1]
\*     nullfield  the listing field is null ({"models": null} / {"data": null})
\*     badentry   the listing holds the entry {} (no name, no id)
Reply(post, body) == [post |-> post, body |-> body]
NoReply == Reply("none", "none")

ProbeReplies == {Reply("ok", "none"), Reply("status", "none"), Reply("exc", "none")}

ListBodies == {"models", "empty", "malformed", "nonobject", "nullfield", "badentry"}
ListReplies ==
    {Reply("status", "none"), Reply("exc", "none")}
    \cup {Reply("ok", b) : b \in ListBodies}

\* values the two operations return
NoReturn      == [kind |-> "nothing", ok |-> FALSE, models |-> <<>>]
BoolReturn(b) == [kind |-> "bool", ok |-> b, models |-> <<>>]
ListReturn(l) == [kind |-> "list", ok |-> FALSE, models |-> l]
\* Python's None
NoneReturn    == [kind |-> "None", ok |-> FALSE, models |-> <<>>]

\* the `name` of a listing entry that has none
NoName == "<no name>"

CallOutcome(ret, n) == [result |-> ret, reqs |-> n]

\* P.check_connection(): FallbackProvider returns True; a credentialed
\* variant without its credential returns False before any request; the
\* others send one request and return status_code == 200, False when
\* requests raises.
Provider_check_connection(p, cred, reply) ==
    IF p = "fallback" THEN CallOutcome(BoolReturn(TRUE), 0)
    ELSE IF MissingCredential(p, cred) THEN CallOutcome(BoolReturn(FALSE), 0)
    ELSE CallOutcome(BoolReturn(reply.post = "ok"), 1)

\* the listing a requesting variant (Ollama, OpenAI, Gemini, Azure) builds
\* from the reply.  OllamaProvider returns response.json().get('models', [])
\* as it is; the other three build {"name": ...} entries inside the try.
ListedModels(p, reply) ==
    IF reply.post # "ok" THEN ListReturn(<<>>)
    ELSE IF reply.body = "models" THEN ListReturn(VendorModels(p))
    ELSE IF p = "ollama" /\ reply.body = "nullfield" THEN NoneReturn
    ELSE IF p = "ollama" /\ reply.body = "badentry" THEN ListReturn(<<NoName>>)
    ELSE ListReturn(<<>>)

\* P.list_models(): Fallback and HuggingFace return their fixed catalogue
\* (HuggingFace without looking at its credential), Anthropic its catalogue
\* if it holds its key; the others send one request.
Provider_list_models(p, cred, reply) ==
    CASE p = "fallback"    -> CallOutcome(ListReturn(FallbackCatalogue), 0)
      [] p = "huggingface" -> CallOutcome(ListReturn(HuggingFaceCatalogue), 0)
      [] p = "anthropic"   ->
           CallOutcome(ListReturn(IF cred THEN AnthropicCatalogue ELSE <<>>), 0)
      [] OTHER ->
           IF MissingCredential(p, cred) THEN CallOutcome(ListReturn(<<>>), 0)
           ELSE CallOutcome(ListedModels(p, reply), 1)

\* values P.list_models() can return for a registered provider (registered
\* cloud providers hold their credential), over every reply of the list
\* endpoint: a fixed catalogue, the listing sent, [] on a failure, and for
\* Ollama also None and a listing whose first entry has no name.
ListAnswers(p) == {Provider_list_models(p, TRUE, reply).result : reply \in ListReplies}

\* `not models` on a value list_models() returned: None and [] are falsy
Falsy(ret) == ret.kind = "None" \/ ret.models = <<>>

PIdle ==
    /\ pOp = "none" /\ pReply = NoReply /\ pPc = "idle"
    /\ pRet = NoReturn /\ pReqs = 0

\* a check_connection() call on the provider object
PCheckConnection ==
    /\ pPc = "idle"
    /\ \E reply \in ProbeReplies :
         LET o == Provider_check_connection(sProvider, sCred, reply) IN
           /\ pReply' = IF o.reqs = 0 THEN NoReply ELSE reply
           /\ pRet' = o.result
           /\ pReqs' = o.reqs
    /\ pOp' = "check_connection"
    /\ pPc' = "done"
    /\ UNCHANGED <<svars, evars, gvars, tvars, avars>>

\* a list_models() call on the provider object
PListModels ==
    /\ pPc = "idle"
    /\ \E reply \in ListReplies :
         LET o == Provider_list_models(sProvider, sCred, reply) IN
           /\ pReply' = IF o.reqs = 0 THEN NoReply ELSE reply
           /\ pRet' = o.result
           /\ pReqs' = o.reqs
    /\ pOp' = "list_models"
    /\ pPc' = "done"
    /\ UNCHANGED <<svars, evars, gvars, tvars, avars>>

PNext == PCheckConnection \/ PListModels

\* every operation of one provider object
ProviderNext == SNext \/ PNext

\* ResolveProvider that sends an unknown name to the fallback provider
ResolveProvider_ToFallback(name) ==
    IF name = "" THEN default_provider
    ELSE IF name \notin providers THEN "fallback"
    ELSE name

\* `if not provider: provider = default` then `if provider not in
\* self.providers: provider = default`
ResolveProvider(name) ==
    IF name = "" THEN default_provider
    ELSE IF name \notin providers THEN default_provider
    ELSE name

\* values handed around by generate_completion
NoResult == [kind |-> "none", src |-> "", topic |-> "", len |-> 0]
StringResult(r) == [kind |-> "string", src |-> "fallback", topic |-> r.topic, len |-> r.len]
\* "Error: Provider '<name>' is not available and fallback is disabled."
UnavailableString(name) == [kind |-> "string", src |-> name, topic |-> "unavailable", len |-> 0]
\* the generator object of _stream_fallback(response), not yet iterated
FallbackStreamObject(r) == [kind |-> "generator", src |-> "fallback", topic |-> r.topic, len |-> r.len]
\* the generator object of a vendor's generate_completion, not yet iterated
VendorGeneratorObject(p) == [kind |-> "generator", src |-> p, topic |-> "", len |-> 0]
\* the generator object of AIService.generate_completion, not yet iterated
GatewayGeneratorObject == [kind |-> "generator", src |-> "gateway", topic |-> "", len |-> 0]
\* the value AIService.list_models returns: a list of entries, or the None
\* OllamaProvider.list_models handed over
ListResult(ret) == [kind |-> ret.kind, src |-> "", topic |-> "", len |-> 0, models |-> ret.models]
Raised(e) == [kind |-> "raised", src |-> e, topic |-> "", len |-> 0]

\* FallbackProvider.generate_completion(model, prompt, temperature, stream)
FallbackProvider_generate_completion(q, stream) ==
    IF stream THEN FallbackStreamObject(get_fallback_response(q))
    ELSE StringResult(get_fallback_response(q))

\* the call expression ai_provider.generate_completion(model, prompt,
\* temperature, stream) on a registry entry
Provider_generate_completion(p, q, stream) ==
    IF IsGeneratorFunction(p) THEN VendorGeneratorObject(p)
    ELSE FallbackProvider_generate_completion(q, stream)

GIdle ==
    /\ gOp = "none" /\ gName = "" /\ gStream = FALSE /\ gPrompt = PlainPrompt
    /\ gPc = "idle" /\ gResolved = "" /\ gProbes = <<>> /\ gListed = <<>>
    /\ gRet = NoResult /\ gEvents = <<>> /\ gStop = NoResult /\ gRaised = "none"
    /\ gCalls = <<>>

ListOutcome(e, p, pr, li, m) ==
    [raised |-> e, resolved |-> p, probes |-> pr, listed |-> li, ret |-> m]

\* AIService.list_models without the `if not models and self.use_fallback`
\* substitution
list_models_NoEmptyCheck(name) ==
    LET p == ResolveProvider(name) IN
    IF p \notin providers
    THEN {ListOutcome("KeyError", p, <<>>, <<>>, ListReturn(<<>>))}
    ELSE (IF FALSE \in ProbeAnswers(p)
          THEN {ListOutcome("none", p, <<<<p, FALSE>>>>, <<>>,
                            ListReturn(IF use_fallback THEN FallbackCatalogue ELSE <<>>))}
          ELSE {})
         \cup {ListOutcome("none", p, <<<<p, TRUE>>>>, <<<<p, m>>>>, m)
                 : m \in ListAnswers(p)}

\* AIService.list_models(provider=name), an ordinary function: every way
\* the body can run, by the answers of check_connection() and of the
\* provider's list_models().  raised = "KeyError": self.providers[provider]
\* failed, nothing was probed.  ret is the value returned: what the
\* provider returned, unless that is falsy and fallback is enabled.
list_models(name) ==
    LET p == ResolveProvider(name) IN
    IF p \notin providers
    THEN {ListOutcome("KeyError", p, <<>>, <<>>, ListReturn(<<>>))}
    ELSE (IF FALSE \in ProbeAnswers(p)
          THEN {ListOutcome("none", p, <<<<p, FALSE>>>>, <<>>,
                            ListReturn(IF use_fallback THEN FallbackCatalogue ELSE <<>>))}
          ELSE {})
         \cup {ListOutcome("none", p, <<<<p, TRUE>>>>, <<<<p, m>>>>,
                           IF Falsy(m) /\ use_fallback THEN ListReturn(FallbackCatalogue) ELSE m)
                 : m \in ListAnswers(p)}

\* a caller's AIService.list_models(provider=name) call
AIService_list_models(name) ==
    /\ gPc = "idle"
    /\ gOp' = "list_models" /\ gName' = name
    /\ gPc' = "done"
    /\ \E o \in list_models(name) :
         /\ gResolved' = o.resolved
         /\ gRaised' = o.raised
         /\ gProbes' = o.probes
         /\ gListed' = o.listed
         /\ gRet' = IF o.raised = "none" THEN ListResult(o.ret) ELSE Raised(o.raised)
    /\ UNCHANGED <<gStream, gPrompt, gEvents, gStop, gCalls, svars, evars, tvars, pvars, avars>>

\* The call expression AIService.generate_completion(model, prompt,
\* provider=name, temperature, stream).  The body holds a `yield`, so the
\* call runs nothing and hands back a generator object.
AIService_generate_completion(name, q, stream) ==
    /\ gPc = "idle"
    /\ gOp' = "generate_completion" /\ gName' = name
    /\ gPrompt' = q /\ gStream' = stream
    /\ gRet' = GatewayGeneratorObject
    /\ gPc' = "created"
    /\ UNCHANGED <<gResolved, gProbes, gListed, gEvents, gStop, gRaised, gCalls, svars, evars, tvars, pvars, avars>>

\* First next() on the gateway generator: the body runs from name
\* resolution to its first yield or to a return.
GFirstNext ==
    /\ gPc = "created"
    /\ LET p == ResolveProvider(gName) IN
       /\ gResolved' = p
       /\ IF p \notin providers
          THEN /\ gRaised' = "KeyError"
               /\ gPc' = "done"
               /\ UNCHANGED <<gProbes, gEvents, gStop, gCalls>>
          ELSE \E ok \in ProbeAnswers(p) :
               /\ gProbes' = Append(gProbes, <<p, ok>>)
               /\ gRaised' = gRaised
               /\ IF ~ok /\ use_fallback
                  THEN /\ gStop' = FallbackProvider_generate_completion(gPrompt, gStream)
                       /\ gCalls' = Append(gCalls, "fallback")
                       /\ gEvents' = gEvents
                       /\ gPc' = "done"
                  ELSE IF ~ok /\ gStream
                  THEN /\ gEvents' = Append(gEvents, ErrorEvent)
                       /\ gStop' = gStop
                       /\ gCalls' = gCalls
                       /\ gPc' = "suspended"
                  ELSE IF ~ok
                  THEN /\ gStop' = UnavailableString(p)
                       /\ gCalls' = gCalls
                       /\ gEvents' = gEvents
                       /\ gPc' = "done"
                  ELSE /\ gStop' = Provider_generate_completion(p, gPrompt, gStream)
                       /\ gCalls' = Append(gCalls, p)
                       /\ gEvents' = gEvents
                       /\ gPc' = "done"
    /\ UNCHANGED <<gOp, gName, gStream, gPrompt, gListed, gRet, svars, evars, tvars, pvars, avars>>

\* GResume that calls the provider a second time
GResume_CallsAgain ==
    /\ gPc = "suspended"
    /\ gStop' = Provider_generate_completion(gResolved, gPrompt, gStream)
    /\ gCalls' = gCalls \o <<gResolved, gResolved>>
    /\ gPc' = "done"
    /\ UNCHANGED <<gOp, gName, gStream, gPrompt, gResolved, gProbes, gListed,
                   gRet, gEvents, gRaised, svars, evars, tvars, pvars, avars>>

\* next() after the unavailability event: the body falls out of the `if`
\* and returns ai_provider.generate_completion(...), a generator object
\* that nobody iterates.
GResume ==
    /\ gPc = "suspended"
    /\ gStop' = Provider_generate_completion(gResolved, gPrompt, gStream)
    /\ gCalls' = Append(gCalls, gResolved)
    /\ gPc' = "done"
    /\ UNCHANGED <<gOp, gName, gStream, gPrompt, gResolved, gProbes, gListed,
                   gRet, gEvents, gRaised, svars, evars, tvars, pvars, avars>>

\* the caller is done with the result; the service object takes the next call
GNextCall ==
    /\ gPc = "done"
    /\ gOp' = "none" /\ gName' = "" /\ gStream' = FALSE /\ gPrompt' = PlainPrompt
    /\ gPc' = "idle" /\ gResolved' = "" /\ gProbes' = <<>> /\ gListed' = <<>>
    /\ gRet' = NoResult /\ gEvents' = <<>> /\ gStop' = NoResult /\ gRaised' = "none"
    /\ gCalls' = <<>>
    /\ UNCHANGED <<svars, evars, tvars, pvars, avars>>

GListModels == \E name \in ProviderArgs : AIService_list_models(name)

GGenerate ==
    \E name \in ProviderArgs, q \in GatewayPrompts, stream \in BOOLEAN :
        AIService_generate_completion(name, q, stream)

GNext == GListModels \/ GGenerate \/ GFirstNext \/ GResume \/ GNextCall

\* ===========================================================================
\* AITeam.collaborate
\* ===========================================================================
\* iteration order of self.service.providers (insertion order of
\* _initialize_providers)
RegistryOrder ==
    <<"ollama", "openai", "anthropic", "gemini", "azure_openai", "huggingface", "fallback">>

meta_providers ==
    <<"openai", "anthropic", "azure_openai", "gemini", "ollama", "huggingface">>

\* the elements of seq that are in set S, in order
RECURSIVE Filter(_, _)
Filter(seq, S) ==
    IF seq = <<>> THEN <<>>
    ELSE IF Head(seq) \in S THEN <<Head(seq)>> \o Filter(Tail(seq), S)
    ELSE Filter(Tail(seq), S)

\* list.remove(x): drops the first element equal to x
RECURSIVE Remove(_, _)
Remove(seq, x) ==
    IF seq = <<>> THEN <<>>
    ELSE IF Head(seq) = x THEN Tail(seq)
    ELSE <<Head(seq)>> \o Remove(Tail(seq), x)

\* provider names and model names a caller passes
TeamNames  == {"ollama", "openai", "fallback"}
MaxTeam    == 2
ProviderListArgs == UNION {[1..n -> TeamNames] : n \in 0..MaxTeam}
ModelListArgs    == {[i \in 1..n |-> "m"] : n \in 0..MaxTeam}

\* temperature arguments a caller gives to AIService.collaborate
Omitted  == "omitted"
TempArgs == {Omitted, "0.2"}

\* `temperature: float = 0.7` of AITeam.collaborate: AIService.collaborate
\* passes prompt, providers and models only, so this is the value of the
\* local `temperature` in every call it makes
DefaultTemperature == "0.7"

\* one entry of `responses`: the response is what
\* self.service.generate_completion(...) handed back
TeamAnswer(p, m) == [provider |-> p, model |-> m, response |-> GatewayGeneratorObject]

\* the arguments of one self.service.generate_completion(...) call;
\* meta: the prompt is the meta-prompt
GenerateCall(p, m, meta) ==
    [provider |-> p, model |-> m, temperature |-> DefaultTemperature,
     stream |-> FALSE, meta |-> meta]

\* number of fan-out calls issued so far
RECURSIVE FanOutIssued(_)
FanOutIssued(calls) ==
    IF calls = <<>> THEN 0
    ELSE (IF Head(calls).meta THEN 0 ELSE 1) + FanOutIssued(Tail(calls))

TIdle ==
    /\ tPc = "idle" /\ tArgProviders = <<>> /\ tArgModels = <<>>
    /\ tProviders = <<>> /\ tModels = <<>> /\ tIdx = 0 /\ tResponses = <<>>
    /\ tSynth = <<>> /\ tResult = NoResult /\ tRaised = "none"
    /\ tProbes = 0 /\ tLists = 0
    /\ tArgTemp = Omitted /\ tListing = <<>> /\ tCalls = <<>>

\* AITeam.collaborate(prompt, providers=ps, models=ms) is entered
TCall(ps, ms) ==
    /\ tPc = "idle"
    /\ tArgProviders' = ps /\ tArgModels' = ms
    /\ tProviders' = ps /\ tModels' = ms
    /\ tPc' = "select"
    /\ UNCHANGED <<tIdx, tResponses, tSynth, tResult, tRaised, tProbes, tLists,
                   tListing, tCalls, svars, evars, gvars, pvars, avars>>

\* AIService.collaborate(prompt, providers, models) has no temperature
\* parameter: a call that passes one raises TypeError before the body runs;
\* otherwise the body is self.team.collaborate(prompt, providers, models)
AIService_collaborate(ps, ms, temp) ==
    /\ tPc = "idle"
    /\ tArgTemp' = temp
    /\ IF temp # Omitted
       THEN /\ tRaised' = "TypeError"
            /\ tPc' = "done"
            /\ UNCHANGED <<tArgProviders, tArgModels, tProviders, tModels, tIdx,
                           tResponses, tSynth, tResult, tProbes, tLists,
                           tListing, tCalls, svars, evars, gvars, pvars, avars>>
       ELSE TCall(ps, ms)

\* `if not providers:` every registry entry is probed, the reachable ones
\* are kept in registry order
TSelectProviders ==
    /\ tPc = "select"
    /\ IF tProviders = <<>>
       THEN \E up \in SUBSET (providers \ {"fallback"}) :
              /\ tProviders' = Filter(RegistryOrder, up \cup {"fallback"})
              /\ tProbes' = tProbes + Cardinality(providers)
       ELSE UNCHANGED <<tProviders, tProbes>>
    /\ IF tModels = <<>> THEN tPc' = "models" ELSE tPc' = "check"
    /\ tIdx' = 0
    /\ UNCHANGED <<tArgProviders, tArgModels, tModels, tResponses, tSynth, tResult,
                   tRaised, tLists, tArgTemp, tListing, tCalls, svars, evars, gvars, pvars, avars>>

\* provider_models[0]["name"] on an entry without a name raises
\* KeyError('name')
NameKeyError == "KeyError('name')"

\* one iteration of `for provider in providers:` in the `if not models:`
\* branch.  The list iterator reads providers[tIdx]; remove() shortens the
\* list under it.  A falsy listing (None, []) removes the provider, the
\* first entry of any other listing is asked for its name.
TResolveModel ==
    /\ tPc = "models"
    /\ tIdx < Len(tProviders)
    /\ LET provider == tProviders[tIdx + 1] IN
       \E o \in list_models(provider) :
         /\ tProbes' = tProbes + Len(o.probes)
         /\ tLists' = tLists + Len(o.listed)
         /\ tIdx' = tIdx + 1
         /\ IF o.raised # "none"
            THEN /\ tRaised' = o.raised
                 /\ tPc' = "done"
                 /\ UNCHANGED <<tProviders, tModels, tListing>>
            ELSE /\ tListing' = Append(tListing, <<provider, o.ret>>)
                 /\ IF Falsy(o.ret)
                    THEN /\ tModels' = tModels
                         /\ tProviders' = Remove(tProviders, provider)
                         /\ tRaised' = tRaised
                         /\ tPc' = "models"
                    ELSE IF o.ret.models[1] = NoName
                    THEN /\ tRaised' = NameKeyError
                         /\ tPc' = "done"
                         /\ UNCHANGED <<tProviders, tModels>>
                    ELSE /\ tModels' = Append(tModels, o.ret.models[1])
                         /\ tProviders' = tProviders
                         /\ tRaised' = tRaised
                         /\ tPc' = "models"
    /\ UNCHANGED <<tArgProviders, tArgModels, tResponses, tSynth, tResult,
                   tArgTemp, tCalls, svars, evars, gvars, pvars, avars>>

\* the list iterator is exhausted
TModelsResolved ==
    /\ tPc = "models"
    /\ tIdx >= Len(tProviders)
    /\ tPc' = "check"
    /\ UNCHANGED <<tArgProviders, tArgModels, tProviders, tModels, tIdx, tResponses,
                   tSynth, tResult, tRaised, tProbes, tLists,
                   tArgTemp, tListing, tCalls, svars, evars, gvars, pvars, avars>>

\* TCheckLengths that only rejects a providers list longer than the models list
TCheckLengths_OnlyLonger ==
    /\ tPc = "check"
    /\ IF Len(tProviders) > Len(tModels)
       THEN tRaised' = "ValueError" /\ tPc' = "done"
       ELSE tRaised' = tRaised /\ tPc' = "fanout"
    /\ UNCHANGED <<tArgProviders, tArgModels, tProviders, tModels, tIdx, tResponses,
                   tSynth, tResult, tProbes, tLists,
                   tArgTemp, tListing, tCalls, svars, evars, gvars, pvars, avars>>

\* `if len(providers) != len(models): raise ValueError(...)`
TCheckLengths ==
    /\ tPc = "check"
    /\ IF Len(tProviders) # Len(tModels)
       THEN tRaised' = "ValueError" /\ tPc' = "done"
       ELSE tRaised' = tRaised /\ tPc' = "fanout"
    /\ UNCHANGED <<tArgProviders, tArgModels, tProviders, tModels, tIdx, tResponses,
                   tSynth, tResult, tProbes, tLists,
                   tArgTemp, tListing, tCalls, svars, evars, gvars, pvars, avars>>

\* TFanOutCall that issues the next call without waiting for the one before
TFanOutCall_Eager ==
    /\ tPc = "fanout"
    /\ FanOutIssued(tCalls) < Len(tProviders)
    /\ LET i == FanOutIssued(tCalls) + 1 IN
         tCalls' = Append(tCalls, GenerateCall(tProviders[i], tModels[i], FALSE))
    /\ UNCHANGED <<tPc, tArgProviders, tArgModels, tProviders, tModels, tIdx, tResponses,
                   tSynth, tResult, tRaised, tProbes, tLists,
                   tArgTemp, tListing, svars, evars, gvars, pvars, avars>>

\* the fan-out loop, `for i, provider in enumerate(providers):` the
\* statement response = self.service.generate_completion(model, prompt,
\* provider, temperature, stream=False) is reached: the call is issued.  The
\* loop body is sequential, every earlier call has returned.
TFanOutCall ==
    /\ tPc = "fanout"
    /\ FanOutIssued(tCalls) = Len(tResponses)
    /\ Len(tResponses) < Len(tProviders)
    /\ LET i == Len(tResponses) + 1 IN
         tCalls' = Append(tCalls, GenerateCall(tProviders[i], tModels[i], FALSE))
    /\ UNCHANGED <<tPc, tArgProviders, tArgModels, tProviders, tModels, tIdx, tResponses,
                   tSynth, tResult, tRaised, tProbes, tLists,
                   tArgTemp, tListing, svars, evars, gvars, pvars, avars>>

\* the issued call returns: it hands back a generator object, which is
\* stored as the response and never iterated, so no probe and no request
\* is made here
TFanOutReturn ==
    /\ tPc = "fanout"
    /\ FanOutIssued(tCalls) > Len(tResponses)
    /\ LET i == Len(tResponses) + 1 IN
         tResponses' = Append(tResponses, TeamAnswer(tProviders[i], tModels[i]))
    /\ UNCHANGED <<tPc, tArgProviders, tArgModels, tProviders, tModels, tIdx,
                   tSynth, tResult, tRaised, tProbes, tLists,
                   tArgTemp, tListing, tCalls, svars, evars, gvars, pvars, avars>>

\* enumerate(providers) is exhausted; the meta-prompt is built from responses
TFanOutEnd ==
    /\ tPc = "fanout"
    /\ FanOutIssued(tCalls) = Len(tResponses)
    /\ Len(tResponses) = Len(tProviders)
    /\ tPc' = "synth"
    /\ UNCHANGED <<tArgProviders, tArgModels, tProviders, tModels, tIdx, tResponses,
                   tSynth, tResult, tRaised, tProbes, tLists,
                   tArgTemp, tListing, tCalls, svars, evars, gvars, pvars, avars>>

\* one iteration of `for provider in meta_providers:`
TSynthStep ==
    /\ tPc = "synth"
    /\ Len(tSynth) < Len(meta_providers)
    /\ LET provider == meta_providers[Len(tSynth) + 1] IN
       IF provider \notin providers
       THEN /\ tSynth' = Append(tSynth, "skipped")
            /\ UNCHANGED <<tProbes, tLists, tResult, tPc, tCalls, tRaised>>
       ELSE \E ok \in ProbeAnswers(provider) :
            IF ~ok
            THEN /\ tSynth' = Append(tSynth, "skipped")
                 /\ tProbes' = tProbes + 1
                 /\ UNCHANGED <<tLists, tResult, tPc, tCalls, tRaised>>
            ELSE \E o \in list_models(provider) :
                 /\ tProbes' = tProbes + 1 + Len(o.probes)
                 /\ tLists' = tLists + Len(o.listed)
                 /\ IF Falsy(o.ret)
                    THEN /\ tSynth' = Append(tSynth, "nomodels")
                         /\ UNCHANGED <<tResult, tPc, tCalls, tRaised>>
                    ELSE IF o.ret.models[1] = NoName
                    THEN /\ tSynth' = Append(tSynth, "raised")
                         /\ tRaised' = NameKeyError
                         /\ tPc' = "done"
                         /\ UNCHANGED <<tResult, tCalls>>
                    ELSE /\ tSynth' = Append(tSynth, "selected")
                         /\ tCalls' = Append(tCalls, GenerateCall(provider, o.ret.models[1], TRUE))
                         /\ tResult' = GatewayGeneratorObject
                         /\ tPc' = "done"
                         /\ tRaised' = tRaised
    /\ UNCHANGED <<tArgProviders, tArgModels, tProviders, tModels, tIdx, tResponses,
                   tArgTemp, tListing, svars, evars, gvars, pvars, avars>>

\* max(responses, key=...) over string responses: the first of the longest
Longest(responses) ==
    LET best == CHOOSE i \in 1..Len(responses) :
                  /\ \A j \in 1..Len(responses) : responses[j].response.len <= responses[i].response.len
                  /\ \A j \in 1..(i - 1) : responses[j].response.len < responses[i].response.len
    IN responses[best].response

\* `max(responses, key=lambda x: len(x["response"]))`: len() of a generator
\* object raises TypeError; max() of an empty list raises ValueError
TBestResponse ==
    /\ tPc = "synth"
    /\ Len(tSynth) = Len(meta_providers)
    /\ IF tResponses = <<>>
       THEN tRaised' = "ValueError" /\ tResult' = tResult
       ELSE IF \E i \in 1..Len(tResponses) : tResponses[i].response.kind # "string"
       THEN tRaised' = "TypeError" /\ tResult' = tResult
       ELSE tRaised' = tRaised /\ tResult' = Longest(tResponses)
    /\ tPc' = "done"
    /\ UNCHANGED <<tArgProviders, tArgModels, tProviders, tModels, tIdx, tResponses,
                   tSynth, tProbes, tLists, tArgTemp, tListing, tCalls,
                   svars, evars, gvars, pvars, avars>>

\* the synthesis calls among the issued calls
MetaCalls == SelectSeq(tCalls, LAMBDA c : c.meta)

\* The meta-prompt built around the prompt "hi", as _get_fallback_response
\* reads it: every answer is shown as "### Модель i (provider/model):"
\* followed by str() of the response; the text of a generator object holds
\* "generator", hence "tor", and the model name fallback-unix holds "unix".
MetaPrompt(responses) ==
    PromptOf(FALSE, FALSE, FALSE, "none",
             \E i \in 1..Len(responses) : responses[i].model = "fallback-unix",
             FALSE,
             \E i \in 1..Len(responses) : responses[i].response.kind = "generator",
             "none", FALSE)

\* The caller runs the generator object collaborate returned (the one of
\* the synthesis call) to its return value: the body of
\* AIService.generate_completion probes the synthesizer and hands the call
\* to the Fallback provider, or gives the unavailability string, or
\* returns the synthesizer's own generator object.
TConsumeResult ==
    /\ tPc = "done" /\ tRaised = "none"
    /\ tResult = GatewayGeneratorObject
    /\ MetaCalls # <<>>
    /\ LET p == ResolveProvider(MetaCalls[1].provider) IN
       \E ok \in ProbeAnswers(p) :
         /\ tProbes' = tProbes + 1
         /\ tResult' = IF ~ok /\ use_fallback
                        THEN FallbackProvider_generate_completion(MetaPrompt(tResponses), FALSE)
                        ELSE IF ~ok THEN UnavailableString(p)
                        ELSE Provider_generate_completion(p, MetaPrompt(tResponses), FALSE)
    /\ tPc' = "consumed"
    /\ UNCHANGED <<tArgProviders, tArgModels, tProviders, tModels, tIdx, tResponses,
                   tSynth, tRaised, tLists, tArgTemp, tListing, tCalls,
                   svars, evars, gvars, pvars, avars>>

\* the caller is done with the call; the service object takes the next one
TNextCall ==
    /\ tPc \in {"done", "consumed"}
    /\ tPc' = "idle" /\ tArgProviders' = <<>> /\ tArgModels' = <<>>
    /\ tProviders' = <<>> /\ tModels' = <<>> /\ tIdx' = 0 /\ tResponses' = <<>>
    /\ tSynth' = <<>> /\ tResult' = NoResult /\ tRaised' = "none"
    /\ tProbes' = 0 /\ tLists' = 0
    /\ tArgTemp' = Omitted /\ tListing' = <<>> /\ tCalls' = <<>>
    /\ UNCHANGED <<svars, evars, gvars, pvars, avars>>

TCollaborate ==
    \E ps \in ProviderListArgs, ms \in ModelListArgs, temp \in TempArgs :
        AIService_collaborate(ps, ms, temp)

TNext == TCollaborate \/ TSelectProviders \/ TResolveModel \/ TModelsResolved
         \/ TCheckLengths \/ TFanOutCall \/ TFanOutReturn \/ TFanOutEnd
         \/ TSynthStep \/ TBestResponse

\* ===========================================================================
\* Properties of the gateway calls
\* ===========================================================================
\* the answer of the connectivity probe of the finished or suspended call
ProbeFailed == Len(gProbes) = 1 /\ gProbes[1] = <<gResolved, FALSE>>
ProbePassed == Len(gProbes) = 1 /\ gProbes[1] = <<gResolved, TRUE>>

\* C4 (as claimed): fallback enabled and the resolved provider unreachable:
\* the caller of Gateway.generateCompletion holds the string that
\* FallbackProvider.generate_completion returns (stream=false), or iterating
\* the result to its end gave the events of FallbackProvider's stream, in
\* order (stream=true).
C4_DelegatesToFallback ==
    (gOp = "generate_completion" /\ gPc = "done" /\ use_fallback /\ ProbeFailed) =>
        IF gStream
        THEN gEvents = stream_fallback(Text(get_fallback_response(gPrompt).len))
        ELSE gRet = FallbackProvider_generate_completion(gPrompt, FALSE)

\* C5: a list_models call that resolved its provider returns the Fallback
\* catalogue if fallback is enabled and the provider is unreachable or
\* reachable with an empty listing, the empty list if it is unreachable and
\* fallback is disabled, and otherwise the provider's own listing.  The
\* provider's value is taken as returned: empty means falsy ([] or None).
C5_ListModels ==
    (gOp = "list_models" /\ gPc = "done" /\ gRaised = "none") =>
        /\ ProbeFailed \/ (ProbePassed /\ Len(gListed) = 1 /\ gListed[1][1] = gResolved)
        /\ gRet =
             IF use_fallback /\ (ProbeFailed \/ Falsy(gListed[1][2]))
             THEN ListResult(ListReturn(FallbackCatalogue))
             ELSE IF ProbeFailed THEN ListResult(ListReturn(<<>>))
             ELSE ListResult(gListed[1][2])

\* C5 witness: a reachable vendor answered an empty listing with fallback
\* enabled, and the catalogue came back.
C5_Witness ==
    /\ gOp = "list_models" /\ gPc = "done" /\ use_fallback
    /\ ProbePassed /\ gListed = <<<<gResolved, ListReturn(<<>>)>>>>
    /\ gResolved = "openai"
    /\ gRet = ListResult(ListReturn(FallbackCatalogue))

\* C6 (as claimed): fallback disabled and the resolved provider
\* unreachable: the caller holds the unavailability string (stream=false),
\* or the iteration gave exactly one error event and ended (stream=true).
C6_UnavailableError ==
    (gOp = "generate_completion" /\ gPc = "done" /\ ~use_fallback /\ ProbeFailed) =>
        IF gStream
        THEN gEvents = <<ErrorEvent>>
        ELSE gRet = UnavailableString(gResolved)

\* C7: a call whose provider argument is empty or not a registry key, made
\* on a service whose default provider is registered, runs on the default
\* provider: the resolved name is the default, nothing is raised, every
\* probe and listing request goes to the default provider and every value
\* produced comes from it or from the Fallback substitution.
C7_UnknownNameUsesDefault ==
    (gPc \in {"suspended", "done"}
       /\ (gName = "" \/ gName \notin providers)
       /\ default_provider \in providers) =>
        /\ gResolved = default_provider
        /\ gRaised = "none"
        /\ Len(gProbes) = 1 /\ gProbes[1][1] = default_provider
        /\ \A i \in 1..Len(gListed) : gListed[i][1] = default_provider
        /\ gStop.src \in {"", "fallback", default_provider}

\* C7 witness: generate_completion(provider="doesnotexist") ran on the
\* registered default openai.
C7_Witness ==
    /\ gOp = "generate_completion" /\ gPc = "done"
    /\ gName = "doesnotexist"
    /\ default_provider = "openai" /\ "openai" \in providers
    /\ gStop = VendorGeneratorObject("openai")

\* C8 (as claimed): once a call has been made with a name that does not
\* resolve even after defaulting, the configuration error has been raised
\* to the caller and no probe was made.
C8_ConfigErrorAtCall ==
    (gPc # "idle" /\ ResolveProvider(gName) \notin providers) =>
        /\ gRaised = "KeyError"
        /\ gProbes = <<>>

\* ===========================================================================
\* Properties of collaborate
\* ===========================================================================
\* C9: in a collaborate call with explicit non-empty providers and models
\* lists of different lengths, no connectivity probe and no listing request
\* is ever made, no answer is collected, the call never gets past the
\* length check, and it ends by raising the input error.
C9_LengthMismatchRaisesFirst ==
    (tPc # "idle" /\ tArgProviders # <<>> /\ tArgModels # <<>>
       /\ Len(tArgProviders) # Len(tArgModels)) =>
        /\ tPc \in {"select", "check", "done"}
        /\ tProbes = 0 /\ tLists = 0
        /\ tResponses = <<>>
        /\ tResult = NoResult
        /\ tPc = "done" => tRaised = "ValueError"

\* C9 witness: collaborate(prompt, ["ollama", "openai"], ["m"]) has raised.
C9_Witness ==
    /\ tPc = "done"
    /\ tArgProviders = <<"ollama", "openai">> /\ tArgModels = <<"m">>
    /\ tRaised = "ValueError"

\* every meta_providers entry was unregistered or failed its probe
NoSynthesizerReachable ==
    /\ Len(tSynth) = Len(meta_providers)
    /\ \A i \in 1..Len(tSynth) : tSynth[i] = "skipped"

\* C10 (as claimed): when no synthesizer is registered and reachable and at
\* least one answer was collected, collaborate returns, without raising,
\* the response text of a collected answer of greatest length.
C10_LongestAnswerReturned ==
    (tPc = "done" /\ NoSynthesizerReachable /\ tResponses # <<>>) =>
        /\ tRaised = "none"
        /\ tResult.kind = "string"
        /\ \E i \in 1..Len(tResponses) : tResult = tResponses[i].response
        /\ \A j \in 1..Len(tResponses) : tResponses[j].response.len <= tResult.len

\* C11 (as claimed): a collaborate call (made without a temperature) that
\* ends abnormally ends with the configuration error (KeyError of an
\* unresolvable provider name) or with the length-mismatch input error of
\* an explicit models list; every other call returns a value.
C11_OnlyConfigOrInputErrors ==
    (tPc = "done" /\ tRaised # "none" /\ tArgTemp = Omitted) =>
        \/ tRaised = "KeyError"
        \/ /\ tRaised = "ValueError"
           /\ tArgModels # <<>>
           /\ Len(tProviders) # Len(tModels)

\* C12 (as claimed): when the fan-out is over, responses holds exactly one
\* TeamAnswer per resolved (provider, model) pair, in pair order, and every
\* response in it is a string (an answer, an error string or '').
C12_FanOutCollectsStrings ==
    (tPc = "synth") =>
        /\ Len(tResponses) = Len(tProviders)
        /\ \A i \in 1..Len(tResponses) :
             /\ tResponses[i].provider = tProviders[i]
             /\ tResponses[i].model = tModels[i]
             /\ tResponses[i].response.kind = "string"

\* C13 (as claimed): the fan-out calls are not serialized behind one
\* another: while a call has not yet returned and a provider is still to
\* be called, the call to that next provider can be issued.
C13_NotSerialized ==
    (tPc = "fanout"
       /\ FanOutIssued(tCalls) > Len(tResponses)
       /\ FanOutIssued(tCalls) < Len(tProviders)) => ENABLED TFanOutCall

\* C13 (amended): the fan-out calls are issued one at a time, in pair
\* order: call j is issued only after every call before it has returned, so
\* at most one call is outstanding at any moment.
C13_IssuedOneAtATime ==
    /\ FanOutIssued(tCalls) - Len(tResponses) \in {0, 1}
    /\ \A i \in 1..Len(tCalls) :
         ~tCalls[i].meta =>
            /\ i <= Len(tProviders)
            /\ tCalls[i].provider = tProviders[i]
            /\ tCalls[i].model = tModels[i]

\* C13 witness: the second call of a fan-out is outstanding, the first has
\* returned.
C13_Witness ==
    /\ tPc = "fanout"
    /\ FanOutIssued(tCalls) = 2
    /\ Len(tResponses) = 1

\* the call raised TypeError before any statement of collaborate ran
RejectedAtCall ==
    /\ tPc = "done" /\ tRaised = "TypeError"
    /\ tSynth = <<>> /\ tCalls = <<>> /\ tProbes = 0

\* C17 (as claimed): a temperature given to the Gateway's collaborate is
\* accepted (the call does not fail on it) and is the temperature of every
\* generate_completion call of that collaboration, fan-out and synthesis.
C17_TemperatureUsed ==
    (tArgTemp # Omitted) =>
        /\ ~RejectedAtCall
        /\ \A i \in 1..Len(tCalls) : tCalls[i].temperature = tArgTemp

\* the synthesis calls issued so far
\* C18 (as claimed): the first meta_providers entry that is registered and
\* answers its probe is the synthesizer: it is the last entry tried, it
\* made exactly one non-streaming call with the meta-prompt, and collaborate
\* returned the string that call produced.
C18_FirstReachableSynthesizes ==
    \A i \in 1..Len(tSynth) :
        tSynth[i] # "skipped" =>
            /\ i = Len(tSynth)
            /\ tSynth[i] = "selected"
            /\ tPc = "done" /\ tRaised = "none"
            /\ Len(MetaCalls) = 1
            /\ MetaCalls[1].provider = meta_providers[i]
            /\ ~MetaCalls[1].stream
            /\ tResult.kind = "string"

\* providers of the listing log whose listing was not empty, in order
RECURSIVE ListedNonEmpty(_)
ListedNonEmpty(log) ==
    IF log = <<>> THEN <<>>
    ELSE (IF ~Falsy(Head(log)[2]) THEN <<Head(log)[1]>> ELSE <<>>)
         \o ListedNonEmpty(Tail(log))

\* first model name of every non-empty listing of the log, in order
RECURSIVE FirstModels(_)
FirstModels(log) ==
    IF log = <<>> THEN <<>>
    ELSE (IF ~Falsy(Head(log)[2]) THEN <<Head(log)[2].models[1]>> ELSE <<>>)
         \o FirstModels(Tail(log))

\* C19 (as claimed): collaborate called without models: when the resolution
\* loop is over, providers holds exactly the providers whose listing was
\* non-empty, in order, models[i] is the first model of providers[i], and
\* the lengths agree.
C19_ResolutionDropsEmpty ==
    (tArgModels = <<>> /\ tPc = "check") =>
        /\ tProviders = ListedNonEmpty(tListing)
        /\ tModels = FirstModels(tListing)
        /\ Len(tProviders) = Len(tModels)

\* ===========================================================================
\* Properties of one provider object
\* ===========================================================================
\* C14 (as claimed): on a credentialed variant constructed without its
\* credential, check_connection returns False, a finished stream=False
\* generate_completion call has given its caller the error string, a
\* finished stream=True call has yielded exactly one error event, and no
\* operation has issued a network request.
C14_MissingCredentialShortCircuits ==
    MissingCredential(sProvider, sCred) =>
        /\ (pPc = "done" /\ pOp = "check_connection") => pRet = BoolReturn(FALSE)
        /\ pOp = "check_connection" => pReqs = 0
        /\ sReqs = 0
        /\ (sPc = "done" /\ sStream) => sEvents = <<ErrorEvent>>
        /\ (sPc = "done" /\ ~sStream) => (sRet = "string" /\ sValue = ErrorValue)

\* bodies of a 200 answer that are not a well-formed listing
MalformedBodies == {"malformed", "nonobject", "nullfield", "badentry"}

\* the list_models call met one of the failures the claim names
ListFailure ==
    \/ MissingCredential(sProvider, sCred)
    \/ pReply.post = "status"
    \/ (pReply.post = "ok" /\ pReply.body \in MalformedBodies)

\* C15 (as claimed): a list_models call on any variant that met a missing
\* credential, a non-success status or a malformed body returned the empty
\* list.
C15_ListModelsEmptyOnFailure ==
    (pPc = "done" /\ pOp = "list_models" /\ ListFailure) => pRet = ListReturn(<<>>)

\* the request of a native stream=True call fails before any byte arrives
TransportFailureAtOpen ==
    /\ sStream /\ sProvider \in NativeProviders
    /\ ~MissingCredential(sProvider, sCred)
    /\ sUp.post = "exc"

\* C20: a native stream whose request meets a transport failure before any
\* byte arrives yields exactly one error event and ends: it never reads a
\* line, never yields a done=true event, and the failed request is the only
\* one it issues.
C20_TransportFailureOneErrorEvent ==
    TransportFailureAtOpen =>
        /\ sPc \in {"idle", "created", "done"}
        /\ sReqs <= 1
        /\ DoneIndexes(sEvents) = {}
        /\ sPc = "done" => (sEvents = <<ErrorEvent>> /\ sReqs = 1)
        /\ sPc # "done" => (sEvents = <<>> /\ sReqs = 0)

\* C20 witness: a Gemini stream whose POST raised has ended after its one
\* error event.
C20_Witness ==
    /\ TransportFailureAtOpen /\ sProvider = "gemini"
    /\ sPc = "done"
    /\ sEvents = <<ErrorEvent>> /\ sReqs = 1

\* The list object the caller passed as `providers`.  `if not providers:`
\* rebinds the local name when the list is empty (or None); otherwise the
\* local `providers` is the caller's own list object, and providers.remove()
\* acts on it.
CallerList == IF tArgProviders = <<>> THEN tArgProviders ELSE tProviders

\* C28 (as claimed): once collaborate has returned or raised, the list its
\* caller passed holds the same elements in the same order as at the call.
C28_CallerListUnchanged ==
    tPc = "done" => CallerList = tArgProviders

\* the names in seq
Names(seq) == {seq[i] : i \in 1..Len(seq)}

\* the model names provider p's own list_models() can return
OwnModelNames(p) == UNION {Names(l.models) : l \in ListAnswers(p)}

\* C29 (as claimed): in a collaborate call without models, every fan-out
\* call, and in any collaborate call the synthesis call, pairs its
\* provider with a model name of that provider's own listing; a vendor is
\* never paired with a Fallback catalogue name.
C29_ModelFromOwnListing ==
    \A i \in 1..Len(tCalls) :
        LET c == tCalls[i]
            p == ResolveProvider(c.provider)
        IN (tArgModels = <<>> \/ c.meta) =>
             /\ p \in providers
             /\ c.model \in OwnModelNames(p)
             /\ p # "fallback" => c.model \notin Names(FallbackCatalogue)

\* chunks that cannot be parsed (not JSON) or from which no delta can be
\* extracted (JSON, but not an object)
BadChunks == {"malformed", "nonobject"}

\* the loop of a native stream reads its next line, which is of kind k
ReadsLine(k) ==
    /\ sPc = "lines" /\ sPos < Len(sUp.lines)
    /\ sPos' = sPos + 1
    /\ sUp.lines[sPos + 1] = k

\* C21 (as claimed): in a native stream, reading a chunk that cannot be
\* parsed or whose delta cannot be extracted appends exactly one error
\* event and the loop goes on to the next line; a well-formed chunk read
\* afterwards is delivered as one data event and the end-of-stream signal
\* as the done=true event.
C21_BadChunkOneErrorAndContinue ==
    [][ /\ (\E k \in BadChunks : ReadsLine(k)) =>
             (sEvents' = Append(sEvents, ErrorEvent) /\ sPc' = "lines")
        /\ ReadsLine("delta") => sEvents' = Append(sEvents, DataEvent(<<1>>, FALSE))
        /\ ReadsLine("end") => sEvents' = Append(sEvents, DataEvent(<<>>, TRUE))
      ]_vars

\* a stream=True call on one of the two re-chunking paths got its full text
\* and is in, or past, its chunk loop
Rechunking ==
    /\ sStream /\ sProvider \in {"huggingface", "fallback"}
    /\ sPc \in {"chunks", "done"}
    /\ ~MissingCredential(sProvider, sCred)
    /\ sUp.post = "ok" /\ sUp.body = "ok"

\* ev splits text into consecutive pieces of `size` characters, the last
\* one holding the rest, one data event per piece, done=true on the last
ChunkedBy(ev, text, size) ==
    /\ Len(ev) = (Len(text) + size - 1) \div size
    /\ \A i \in 1..Len(ev) :
         /\ ev[i].kind = "data"
         /\ ev[i].done = (i = Len(ev))
         /\ ev[i].response = Slice(text, (i - 1) * size + 1, Min2(i * size, Len(text)))

\* C24 (as claimed): a finished Fallback stream holds the response cut into
\* chunks of max(5, ceil(len/10)) characters, one event per chunk, in order,
\* done=true on the last chunk only.
C24_ChunksOfCeilTenth ==
    (Rechunking /\ sProvider = "fallback" /\ sPc = "done") =>
        ChunkedBy(sEvents, sUp.text,
                  Max2(MinChunk, (Len(sUp.text) + ChunkDiv - 1) \div ChunkDiv))

\* C24 (amended): the chunks are of max(5, floor(len/10)) characters, the
\* last one possibly shorter, one event per chunk, in order, done=true on
\* the last chunk only.
C24_ChunksOfFloorTenth ==
    (Rechunking /\ sProvider = "fallback" /\ sPc = "done") =>
        ChunkedBy(sEvents, sUp.text, Max2(MinChunk, Len(sUp.text) \div ChunkDiv))

\* C24 witness: a Fallback stream of a 61-character response has ended
\* after ten chunks of 6 characters and one of 1.
C24_Witness ==
    /\ Rechunking /\ sProvider = "fallback" /\ sPc = "done"
    /\ Len(sUp.text) = 61
    /\ Len(sEvents) = 11
    /\ Len(sEvents[1].response) = 6 /\ Len(sEvents[11].response) = 1

RECURSIVE Concat(_)
Concat(ev) == IF ev = <<>> THEN <<>> ELSE ev[1].response \o Concat(Tail(ev))

\* C30: on both re-chunking paths the response fields of the events emitted
\* so far, concatenated in order, are a prefix of the full text, and the
\* whole text once the stream has ended: nothing lost, doubled or reordered.
C30_ChunksConcatenateToText ==
    Rechunking =>
        LET got == Concat(sEvents) IN
          /\ Len(got) <= Len(sUp.text)
          /\ got = Slice(sUp.text, 1, Len(got))
          /\ sPc = "done" => got = sUp.text

\* C30 witness: a HuggingFace stream of a 7-character text (below two full
\* chunks, not a multiple of the chunk size) has ended after two events.
C30_Witness ==
    /\ Rechunking /\ sProvider = "huggingface" /\ sPc = "done"
    /\ Len(sUp.text) = 7
    /\ Len(sEvents) = 2

\* ===========================================================================
\* Properties of the config audit
\* ===========================================================================
\* C16 (as claimed): the prompt "проверь конфигурацию nginx ```server {
\* listen 80 }```" is answered by the nginx auditor's report on the fenced
\* text, and the report flags the missing semicolon of the listen
\* directive; and every prompt routed to the auditor gets a report, whether
\* the '{' and '}' counts of its block agree or not.
C16_AuditFlagsMissingSemicolon ==
    /\ (aPc = "done" /\ aPrompt = NginxAuditPrompt) =>
         /\ aReport.type = "nginx"
         /\ \E i \in 1..Len(aReport.problems) : aReport.problems[i].kind = "semicolon"
    /\ (aPc = "done" /\ RoutedToAuditor(aPrompt)) =>
         aReport.type \in {"nginx", "apache", "undetermined"}

\* the prompt asks for an analysis and mentions a config
AnalysisOfConfig(q) == q.analysis /\ q.config

\* C22 (as claimed): the response of a FallbackProvider call is that of the
\* first class its prompt matches, in the order (1) analysis request that
\* mentions a config, (2) unix/linux, (3) vpn/tor, (4) kubernetes/k8s,
\* (5) the general menu; it is fixed by the prompt alone.
C22_ClassifiedInPriorityOrder ==
    aPc = "done" =>
        CASE AnalysisOfConfig(aPrompt) ->
                 aReport.type \in {"nginx", "apache", "undetermined", "instruction"}
          [] ~AnalysisOfConfig(aPrompt) /\ aPrompt.unix ->
                 aReport.type = "unix"
          [] ~AnalysisOfConfig(aPrompt) /\ ~aPrompt.unix /\ (aPrompt.vpn \/ aPrompt.tor) ->
                 aReport.type \in {"network", "tor"}
          [] ~AnalysisOfConfig(aPrompt) /\ ~aPrompt.unix /\ ~(aPrompt.vpn \/ aPrompt.tor)
             /\ aPrompt.k8s ->
                 aReport.type = "kubernetes"
          [] OTHER -> aReport.type = "general"

\* C23 (as claimed): a prompt that asks for an analysis and mentions a
\* config but fences no block is answered by the instructional message,
\* whatever topic keywords it holds.
C23_NoFenceGetsInstruction ==
    (aPc = "done" /\ AnalysisOfConfig(aPrompt) /\ aPrompt.fence = "none") =>
        aReport.type = "instruction"

\* ===========================================================================
\* Properties of the service object across calls
\* ===========================================================================
\* the settings a cloud variant needs
RequiredSettings(p) ==
    CASE p = "openai"       -> {"OPENAI_API_KEY"}
      [] p = "anthropic"    -> {"ANTHROPIC_API_KEY"}
      [] p = "gemini"       -> {"GEMINI_API_KEY"}
      [] p = "azure_openai" -> {"AZURE_OPENAI_API_KEY", "AZURE_OPENAI_ENDPOINT"}
      [] p = "huggingface"  -> {"HUGGINGFACE_API_KEY"}

\* C25: after construction, whatever list_models, generate_completion and
\* collaborate calls are made, the registry keys are ollama, fallback and
\* exactly the cloud variants whose required settings were all configured;
\* no step changes the registry, the default provider name or the fallback
\* flag.
C25_RegistryFixed ==
    /\ [](providers = {"ollama", "fallback"}
                        \cup {p \in CloudProviders : RequiredSettings(p) \subseteq configured})
    /\ [][ /\ providers' = providers
           /\ default_provider' = default_provider
           /\ use_fallback' = use_fallback ]_vars

\* C25 witness: on a service configured with the Azure key but no Azure
\* endpoint, a collaborate call has run to its end after a synthesis call,
\* and azure_openai is not registered.
C25_Witness ==
    /\ configured = {"AZURE_OPENAI_API_KEY"}
    /\ "azure_openai" \notin providers
    /\ tPc = "done" /\ MetaCalls # <<>>

\* C26: nothing is tried twice.  One generate_completion call of the
\* gateway makes at most one probe and at most one provider-level
\* generate_completion call, on the resolved provider or, after a failed
\* probe with fallback enabled, on the Fallback provider; one collaborate
\* call issues at most one generation call per (provider, model) pair, the
\* i-th one for the i-th pair, and at most one synthesis call.
C26_NoRetry ==
    /\ gOp = "generate_completion" =>
         /\ Len(gProbes) <= 1
         /\ Len(gCalls) <= 1
         /\ \A i \in 1..Len(gCalls) :
              \/ gCalls[i] = gResolved
              \/ gCalls[i] = "fallback" /\ use_fallback /\ gProbes = <<<<gResolved, FALSE>>>>
    /\ FanOutIssued(tCalls) <= Len(tProviders)
    /\ \A i \in 1..FanOutIssued(tCalls) :
         /\ ~tCalls[i].meta
         /\ tCalls[i].provider = tProviders[i] /\ tCalls[i].model = tModels[i]
    /\ Len(MetaCalls) <= 1

\* C26 witness: a gateway generate_completion call on a vendor has ended on
\* the Fallback provider after its one, failed, probe.
C26_Witness ==
    /\ gOp = "generate_completion" /\ gPc = "done"
    /\ gResolved \notin {"fallback", ""}
    /\ gProbes = <<<<gResolved, FALSE>>>>
    /\ gCalls = <<"fallback">>

\* the synthesizer collaborate selected
Synthesizer == MetaCalls[1].provider

\* C27 (as claimed): when collaborate selected a synthesizer, the result
\* the caller ends up with comes from the call on that synthesizer, never
\* from the Fallback provider, whatever the probes after the selection
\* answer.
C27_SynthesizerProducesResult ==
    (tPc = "consumed" /\ MetaCalls # <<>>) => tResult.src = Synthesizer

\* ===========================================================================
\* Specifications
\* ===========================================================================
SIdle ==
    /\ sProvider = "fallback" /\ sStream = FALSE /\ sCred = TRUE /\ sUp = NoUpstream
    /\ sPc = "off" /\ sPos = 0 /\ sEvents = <<>> /\ sRet = "none"
    /\ sValue = NoValue /\ sReqs = 0

EIdle ==
    /\ providers = {"ollama", "fallback"}
    /\ default_provider = "ollama"
    /\ use_fallback = TRUE
    /\ configured = {}

AIdle ==
    /\ aPrompt = NoAuditPrompt /\ aPc = "off" /\ aReport = NoReport

\* one provider-level generate_completion call, any variant, any backend answer
InitStream == SInit /\ EIdle /\ GIdle /\ TIdle /\ PIdle /\ AIdle

SpecStream == InitStream /\ [][SNext]_vars

\* any AIService object, any sequence of list_models / generate_completion calls
InitGateway == SIdle /\ EInit /\ GIdle /\ TIdle /\ PIdle /\ AIdle

SpecGateway == InitGateway /\ [][GNext]_vars

\* any AIService object, one AITeam.collaborate call
InitTeam == SIdle /\ EInit /\ GIdle /\ TIdle /\ PIdle /\ AIdle

SpecTeam == InitTeam /\ [][TNext]_vars

\* one provider object, any variant: a generate_completion call and a
\* check_connection or list_models call
InitProvider == SInit /\ EIdle /\ GIdle /\ TIdle /\ PIdle /\ AIdle

SpecProvider == InitProvider /\ [][ProviderNext]_vars

\* one FallbackProvider.generate_completion call, any prompt
InitAudit == SIdle /\ EIdle /\ GIdle /\ TIdle /\ PIdle /\ AInit

SpecAudit == InitAudit /\ [][ANext]_vars

\* settings the service object is constructed with
SettingsTried ==
    {{}, {"OPENAI_API_KEY"}, {"AZURE_OPENAI_API_KEY"}, {"AZURE_OPENAI_ENDPOINT"},
     {"AZURE_OPENAI_API_KEY", "AZURE_OPENAI_ENDPOINT"},
     {"ANTHROPIC_API_KEY", "HUGGINGFACE_API_KEY"}}

\* AIService.__init__ has run on the settings
EConstructed ==
    /\ configured \in SettingsTried
    /\ providers = initialize_providers(configured)
    /\ default_provider \in DefaultNames
    /\ use_fallback \in BOOLEAN

\* one service object, constructed from its settings, taking one call after
\* another: list_models, generate_completion (the caller iterating the
\* generator) and collaborate (the caller running the returned generator)
InitService == SIdle /\ EConstructed /\ GIdle /\ TIdle /\ PIdle /\ AIdle

ServiceNext ==
    \/ (tPc = "idle" /\ GNext)
    \/ (gPc = "idle" /\ TNext)
    \/ TConsumeResult
    \/ TNextCall

SpecService == InitService /\ [][ServiceNext]_vars

====
